---- MODULE Spec2Model ----
(***************************************************************************)
(* Digital Earth Pacific scene processing: the per-cell loops              *)
(* (process_wofs, process_by_scene, fc_by_scene), the tile writer          *)
(* write_to_blob_storage, the metadata corrector fix_bad_epsgs, the        *)
(* bounding-box correction get_bbox, the quality masker, the quantizer     *)
(* and the mosaic builder.                                                 *)
(*                                                                         *)
(* The module holds one specification per part of the program:             *)
(*   Spec        the per-cell loop with the tile writer                    *)
(*   SpecEpsg    fix_bad_epsgs applied repeatedly to an item collection    *)
(*   SpecBbox    the two get_bbox variants                                 *)
(*   SpecQuant   scale_to_int16 and the inline quantization                *)
(*   SpecMask    mask_clouds / mask_landsat_clouds                         *)
(*   SpecMosaic  mosaic_files, mosaic_tiles, their callers and create_tiles *)
(*   SpecRaster  the chunk writes of to_raster under the lock "rio"         *)
(*   SpecWofs    the decision-tree classifier wofs                          *)
(***************************************************************************)
EXTENDS Integers, Sequences, FiniteSets, TLC

VARIABLES
    \* ---- per-cell loop (wofs.py:77-143, evi.py:98-174, fractional_cover.py:31-121)
    cells,            \* the rows of pathrows_in_aoi: per cell, what the catalog holds
    i,                \* index of the row the for loop is at
    pc,               \* position inside the loop body
    item_collection,  \* the item collection of the current cell
    buffer,           \* the io.BytesIO buffer of write_to_blob_storage
    store,            \* the output container: key -> blob
    log,              \* what the loop has printed
    runState,         \* "running", "finished", "aborted", "cancelled"
    built,            \* cells for which the stack was built
    raised,           \* cell -> the step of the cell that raised, "none" if none
    initStore,        \* history: the container as the run found it
    \* ---- fix_bad_epsgs (landsat_utils.py:40-48, evi.py:61-69)
    epsg_items,       \* proj:epsg of each item of the collection, in place
    epsg_hist,        \* history: the collection before and after each application
    epsg_state,       \* "ok" or "raised"
    \* ---- get_bbox (landsat_utils.py:51-59, evi.py:72-79)
    bbox_variant,     \* "landsat_utils" or "evi"
    bbox_in,          \* the WGS84 bounds of the cell
    bbox_out,         \* what get_bbox returned
    bbox_pc,
    \* ---- quantizer (utils.py:61-70, evi.py:156-162)
    q_variant,        \* "scale_to_int16" or "process_by_scene"
    q_in,             \* the pixel's value (or null)
    q_stored,         \* the stored int16
    q_pc,
    \* ---- quality masker (landsat_utils.py:11-20, evi.py:32-41)
    mask_variant,     \* "mask_clouds" or "mask_landsat_clouds"
    mask_in,          \* one pixel at one time step: band -> value, with qa_pixel
    mask_out,
    mask_pc,
    \* ---- mosaic builder (utils.py:180-206, evi.py:177-208)
    mosaic,           \* prefix -> the mosaic file data/<prefix>.tif
    vrt_builds,       \* prefix -> number of VRTs built
    last_call,        \* history: the last mosaic call and what it found
    \* ---- tile pyramid (utils.py:111-169)
    tiles_pc,         \* "idle", "upload", "returned", "raised"
    tiles_prefix,     \* the prefix create_tiles was called with
    local_tiles,      \* the files under data/tiles/<prefix>
    tiles_todo,       \* the files the rglob loop has still to visit
    uploaded_tiles,   \* the files whose upload_blob has completed in this call
    tiles_listed,     \* history: the files the call found under the tile directory
    tiles_failed,     \* the file whose upload raised, 0 if none
    \* ---- to_raster under the lock (utils.py:197-202, evi.py:203-205)
    raster_entry,     \* "mosaic_files" or "mosaic_tiles"
    raster_pc,        \* "storing" or "returned"
    chunks_todo,      \* chunk writes no worker has taken yet
    worker_pc,        \* worker -> "idle", "waiting", "writing"
    worker_chunk,     \* worker -> the chunk it is to write, 0 if none
    worker_view,      \* worker -> the file as the worker opened it
    lock_holder,      \* the worker holding the lock "rio", 0 if free
    file_chunks,      \* the chunks the mosaic file holds
    chunks_written,   \* history: the chunks whose write has completed
    \* ---- wofs classifier (wofs.py:33-74)
    wofs_in,          \* one pixel: band -> reflectance (or null)
    wofs_out,         \* what wofs returned for the pixel
    wofs_pc

runVars == <<cells, i, pc, item_collection, buffer, store, log, runState,
             built, raised, initStore>>
epsgVars == <<epsg_items, epsg_hist, epsg_state>>
bboxVars == <<bbox_variant, bbox_in, bbox_out, bbox_pc>>
quantVars == <<q_variant, q_in, q_stored, q_pc>>
maskVars == <<mask_variant, mask_in, mask_out, mask_pc>>
tileVars == <<tiles_pc, tiles_prefix, local_tiles, tiles_todo, uploaded_tiles,
              tiles_listed, tiles_failed>>
mosaicVars == <<mosaic, vrt_builds, last_call, tileVars>>
rasterVars == <<raster_entry, raster_pc, chunks_todo, worker_pc, worker_chunk,
                worker_view, lock_holder, file_chunks, chunks_written>>
wofsVars == <<wofs_in, wofs_out, wofs_pc>>
vars == <<runVars, epsgVars, bboxVars, quantVars, maskVars, mosaicVars,
          rasterVars, wofsVars>>

Min(a, b) == IF a < b THEN a ELSE b

-----------------------------------------------------------------------------
(* str(), int() and the 02d format of Python, on non-negative integers.     *)

DigitChar == <<"0", "1", "2", "3", "4", "5", "6", "7", "8", "9">>

CharVal(c) == CHOOSE d \in 0..9 : DigitChar[d + 1] = c

RECURSIVE Str(_)
\* str(n) for an int n >= 0: its decimal digits, no leading zero
Str(n) == IF n < 10 THEN <<DigitChar[n + 1]>>
          ELSE Append(Str(n \div 10), DigitChar[(n % 10) + 1])

RECURSIVE DigitsValue(_)
DigitsValue(s) == IF Len(s) = 0 THEN 0
                  ELSE 10 * DigitsValue(SubSeq(s, 1, Len(s) - 1)) + CharVal(s[Len(s)])

\* int(s) for a string of digits: raises ValueError on the empty string,
\* accepts leading zeros
IntParse(s) == IF Len(s) = 0 THEN [ok |-> FALSE, v |-> 0]
               ELSE [ok |-> TRUE, v |-> DigitsValue(s)]

\* f"{n:02d}": n zero-padded to at least two characters
Pad2(n) == IF n < 10 THEN <<"0">> \o Str(n) ELSE Str(n)

\* the zone sliced one character early: epsg[2:] in place of epsg[3:]
FixOneSlicedEarly(epsg) ==
    LET s == Str(epsg)
        head == SubSeq(s, 1, Min(3, Len(s)))
        tail == SubSeq(s, 3, Len(s))
        t == IntParse(tail)
    IN  IF ~t.ok THEN [raised |-> TRUE, v |-> epsg]
        ELSE [raised |-> FALSE, v |-> IntParse(head \o Pad2(t.v)).v]

\* One iteration of the loop of fix_bad_epsgs on an item whose proj:epsg is
\* epsg:  epsg = str(...);  int(f"{epsg[0:3]}{int(epsg[3:]):02d}")
FixOne(epsg) ==
    LET s == Str(epsg)
        head == SubSeq(s, 1, Min(3, Len(s)))
        tail == SubSeq(s, 4, Len(s))
        t == IntParse(tail)
    IN  IF ~t.ok THEN [raised |-> TRUE, v |-> epsg]
        ELSE [raised |-> FALSE, v |-> IntParse(head \o Pad2(t.v)).v]

RECURSIVE FixFrom(_, _)
\* the for loop from item k on; items already visited stay modified when a
\* later item raises (the function modifies in place)
FixFrom(items, k) ==
    IF k > Len(items) THEN [raised |-> FALSE, items |-> items]
    ELSE LET r == FixOne(items[k])
         IN  IF r.raised THEN [raised |-> TRUE, items |-> items]
             ELSE FixFrom([items EXCEPT ![k] = r.v], k + 1)

fix_bad_epsgs(items) == FixFrom(items, 1)

-----------------------------------------------------------------------------
(* The per-cell loop.  process_wofs (wofs.py:77-143), process_by_scene      *)
(* (evi.py:98-174) and fc_by_scene (fractional_cover.py:31-121) have the    *)
(* same body: search, empty check, fix_bad_epsgs, stack and clip, the lazy  *)
(* mask / algorithm / quantization, and write_to_blob_storage inside the    *)
(* only try block.  The line numbers below are those of process_wofs.       *)

NCells == 2
ChunksPerRaster == 2

Cells == 1..NCells

\* what the catalog may hold for a cell: nothing, a well-formed identifier,
\* a truncated one (zone without its leading zero), a malformed one (no
\* zone digits at all)
RunCollections == {<<>>, <<32618>>, <<3268>>, <<326>>, <<3268, 326>>}

\* f"{output_prefix}_{path}_{row}.tif": one key per path/row
CellKey(c) == c

Absent == [cell |-> 0, gen |-> "none", chunks |-> 0]
\* the raster an earlier run left under the key of cell c
OldRaster(c) == [cell |-> c, gen |-> "old", chunks |-> ChunksPerRaster]
\* what this run has rendered for cell c after n chunks
Rendered(c, n) == [cell |-> c, gen |-> "new", chunks |-> n]
NewRaster(c) == Rendered(c, ChunksPerRaster)

RunStart ==
    /\ cells \in [Cells -> [items : RunCollections]]
    /\ i = 1
    /\ pc = "search"
    /\ item_collection = <<>>
    /\ buffer = 0
    /\ store \in {f \in [Cells -> {Absent} \cup {OldRaster(c) : c \in Cells}] :
                    \A c \in Cells : f[c] \in {Absent, OldRaster(c)}}
    /\ log = <<>>
    /\ runState = "running"
    /\ built = {}
    /\ raised = [c \in Cells |-> "none"]
    /\ initStore = store

IdleRun ==
    /\ cells = <<>>
    /\ i = 0
    /\ pc = "idle"
    /\ item_collection = <<>>
    /\ buffer = 0
    /\ store = <<>>
    /\ log = <<>>
    /\ runState = "idle"
    /\ built = {}
    /\ raised = <<>>
    /\ initStore = <<>>

notRun == <<epsgVars, bboxVars, quantVars, maskVars, mosaicVars,
            rasterVars, wofsVars>>

InCell == runState = "running" /\ i \in Cells /\ UNCHANGED notRun

\* the for statement takes the next row, or the function returns
NextCell ==
    /\ i' = i + 1
    /\ pc' = "search"
    /\ runState' = IF i = NCells THEN "finished" ELSE "running"
    /\ item_collection' = <<>>
    /\ buffer' = 0

\* an exception outside the try block leaves the loop and the function:
\* no caller catches it (wofs.py:146-158)
Propagate(step) ==
    /\ raised' = [raised EXCEPT ![i] = step]
    /\ runState' = "aborted"
    /\ pc' = "raised"
    /\ buffer' = 0
    /\ UNCHANGED <<i, store, log, built>>

\* wofs.py:90-98: item_collection_for_pathrow(path, row, dict(... bbox=get_bbox(...)))
SearchCatalog ==
    /\ InCell /\ pc = "search"
    /\ \E outcome \in {"items", "raise"} :
          IF outcome = "raise"
          THEN Propagate("search") /\ UNCHANGED item_collection
          ELSE /\ item_collection' = cells[i].items
               /\ pc' = "check"
               /\ UNCHANGED <<i, buffer, store, log, runState, built, raised>>
    /\ UNCHANGED <<cells, initStore>>

\* the empty check lost
IsEmptyNever(items) == FALSE

IsEmpty(items) == Len(items) = 0

\* wofs.py:100-102: no items: print and continue
CheckEmpty ==
    /\ InCell /\ pc = "check"
    /\ IF IsEmpty(item_collection)
       THEN /\ log' = Append(log, [cell |-> i, msg |-> "NO ITEMS"])
            /\ NextCell
       ELSE /\ pc' = "fix"
            /\ UNCHANGED <<i, item_collection, buffer, log, runState>>
    /\ UNCHANGED <<cells, store, built, raised, initStore>>

\* wofs.py:104: fix_bad_epsgs(item_collection), outside the try block
FixEpsgs ==
    /\ InCell /\ pc = "fix"
    /\ LET r == fix_bad_epsgs(item_collection)
       IN  /\ item_collection' = r.items
           /\ IF r.raised
              THEN Propagate("fix_bad_epsgs")
              ELSE /\ pc' = "stack"
                   /\ UNCHANGED <<i, buffer, store, log, runState, built, raised>>
    /\ UNCHANGED <<cells, initStore>>

\* wofs.py:105-131: stack(...).rio.write_crs(...).rio.clip(...), then the lazy
\* mask, scale and offset, algorithm and quantization.  Building and clipping
\* may raise at once (outside the try block); the rest is evaluated when the
\* raster is rendered.
BuildStack ==
    /\ InCell /\ pc = "stack"
    /\ \E outcome \in {"stack", "raise"} :
          IF outcome = "raise"
          THEN Propagate("stack")
          ELSE /\ built' = built \cup {i}
               /\ pc' = "render"
               /\ buffer' = 0
               /\ UNCHANGED <<i, store, log, runState, raised>>
    /\ UNCHANGED <<cells, item_collection, initStore>>

\* the raster rendered straight into the destination blob instead of a buffer
RenderChunkDirect ==
    /\ InCell /\ pc = "render"
    /\ buffer < ChunksPerRaster
    /\ buffer' = buffer + 1
    /\ store' = [store EXCEPT ![CellKey(i)] = Rendered(i, buffer + 1)]
    /\ pc' = IF buffer + 1 = ChunksPerRaster THEN "upload" ELSE "render"
    /\ UNCHANGED <<cells, i, item_collection, log, runState, built, raised,
                   initStore>>

\* utils.py:50-51: xr.rio.to_raster(buffer, **write_args) evaluates the lazy
\* array chunk by chunk into the local buffer
RenderChunk ==
    /\ InCell /\ pc = "render"
    /\ buffer < ChunksPerRaster
    /\ buffer' = buffer + 1
    /\ pc' = IF buffer + 1 = ChunksPerRaster THEN "upload" ELSE "render"
    /\ UNCHANGED <<cells, i, item_collection, store, log, runState, built,
                   raised, initStore>>

\* the try block lost: the exception of the write leaves the loop
ExceptReraise(step) == Propagate(step) /\ UNCHANGED item_collection

\* wofs.py:139-143: except Exception as e: print(e), then the progress line
\* and the next row
ExceptPrint(step) ==
    /\ raised' = [raised EXCEPT ![i] = step]
    /\ log' = log \o <<[cell |-> i, msg |-> "error"], [cell |-> i, msg |-> "done"]>>
    /\ NextCell

\* an exception while rendering (masking, algorithm, quantization, encoding)
\* is raised inside write_to_blob_storage, inside the try block
RenderRaises ==
    /\ InCell /\ pc = "render"
    /\ ExceptPrint("render")
    /\ UNCHANGED <<cells, store, built, initStore>>

\* utils.py:52-54: buffer.seek(0); blob_client.upload_blob(buffer, overwrite=True).
\* The container replaces the blob when the upload is committed and keeps the
\* previous blob when the upload fails.
UploadBlob ==
    /\ InCell /\ pc = "upload"
    /\ store' = [store EXCEPT ![CellKey(i)] = Rendered(i, buffer)]
    /\ log' = Append(log, [cell |-> i, msg |-> "done"])
    /\ NextCell
    /\ UNCHANGED <<cells, built, raised, initStore>>

\* upload_blob raises (a transient network error): caught at wofs.py:139
UploadRaises ==
    /\ InCell /\ pc = "upload"
    /\ ExceptPrint("upload")
    /\ UNCHANGED <<cells, store, built, initStore>>

\* the run is interrupted (KeyboardInterrupt is no Exception: wofs.py:139
\* does not catch it)
Cancel ==
    /\ InCell
    /\ runState' = "cancelled"
    /\ buffer' = 0
    /\ UNCHANGED <<cells, i, pc, item_collection, store, log, built, raised,
                   initStore>>

IdleEpsg == epsg_items = <<>> /\ epsg_hist = <<>> /\ epsg_state = "idle"
IdleBbox == bbox_variant = "idle" /\ bbox_in = <<>> /\ bbox_out = <<>> /\ bbox_pc = "idle"
IdleQuant == q_variant = "idle" /\ q_in = <<>> /\ q_stored = 0 /\ q_pc = "idle"
IdleMask == mask_variant = "idle" /\ mask_in = <<>> /\ mask_out = <<>> /\ mask_pc = "idle"
IdleTiles ==
    /\ tiles_pc = "idle" /\ tiles_prefix = "none" /\ local_tiles = {}
    /\ tiles_todo = {} /\ uploaded_tiles = {} /\ tiles_listed = {}
    /\ tiles_failed = 0
IdleRaster ==
    /\ raster_entry = "idle" /\ raster_pc = "idle" /\ chunks_todo = {}
    /\ worker_pc = <<>> /\ worker_chunk = <<>> /\ worker_view = <<>>
    /\ lock_holder = 0 /\ file_chunks = {} /\ chunks_written = {}
IdleWofs == wofs_in = <<>> /\ wofs_out = <<>> /\ wofs_pc = "idle"
IdleMosaic == mosaic = <<>> /\ vrt_builds = <<>> /\ last_call = <<>> /\ IdleTiles

Init ==
    RunStart /\ IdleEpsg /\ IdleBbox /\ IdleQuant /\ IdleMask /\ IdleMosaic
    /\ IdleRaster /\ IdleWofs

Next ==
    \/ SearchCatalog
    \/ CheckEmpty
    \/ FixEpsgs
    \/ BuildStack
    \/ RenderChunk
    \/ RenderRaises
    \/ UploadBlob
    \/ UploadRaises
    \/ Cancel

Spec == Init /\ [][Next]_vars

-----------------------------------------------------------------------------
(* Claims about the per-cell loop.                                          *)

Logged(c, m) == \E k \in 1..Len(log) : log[k] = [cell |-> c, msg |-> m]

\* the iteration of cell c has ended and the loop has gone on
Completed(c) == c < i

WriteRaised(c) == raised[c] \in {"render", "upload"}

\* C1: an error raised by any step of a cell's processing never propagates
\* past the cell: the run does not end because of the cell and the loop goes
\* on to the cells after it.
C1_ErrorsStayInCell ==
    \A c \in Cells : raised[c] # "none" => (runState # "aborted" /\ Completed(c))

\* C2 as stated: when write_to_blob_storage raises for a cell the error is
\* logged, the loop goes on with the next cell, the rasters of the other cells are untouched and
\* the failed cell is absent from the output store.
C2_FailedCellAbsent ==
    \A c \in Cells : WriteRaised(c) =>
        /\ Logged(c, "error")
        /\ Completed(c)
        /\ store[CellKey(c)] = Absent

\* C2 amended: when write_to_blob_storage raises for a cell the error is
\* logged, the run goes on with the next cell, every other cell's key holds
\* what the run found or wrote there, and the key of the failed cell holds
\* exactly what it held before the call (nothing, or the raster of an earlier
\* run).
C2_WriteErrorContinues ==
    \A c \in Cells : WriteRaised(c) =>
        /\ Logged(c, "error")
        /\ Completed(c)
        /\ store[CellKey(c)] = initStore[CellKey(c)]
        /\ \A d \in Cells \ {c} :
              (Completed(d) /\ d \in built /\ raised[d] = "none")
                 => store[CellKey(d)] = NewRaster(d)

C2_Witness ==
    \E c \in Cells : /\ raised[c] = "upload" /\ runState = "finished"
                     /\ \E d \in Cells : d < c /\ store[CellKey(d)] = NewRaster(d)

\* C3: a cell whose search returns no scene is skipped, not failed: NO ITEMS
\* is logged, no stack is built, nothing is written under its key, nothing is
\* raised and the loop goes on to the next cell.
C3_EmptyCellSkipped ==
    \A c \in Cells : (Completed(c) /\ Len(cells[c].items) = 0) =>
        /\ Logged(c, "NO ITEMS")
        /\ ~Logged(c, "error") /\ ~Logged(c, "done")
        /\ c \notin built
        /\ store[CellKey(c)] = initStore[CellKey(c)]
        /\ raised[c] = "none"

C3_Witness ==
    \E c \in Cells : /\ Completed(c) /\ Len(cells[c].items) = 0
                     /\ c < NCells /\ (c + 1) \in built

\* C4: a per-cell write is all or nothing at the object store: in every state,
\* also after a failure or a cancellation while rendering or uploading, the
\* blob under a cell's key is the complete new raster or exactly what it was
\* before the call, never a partial raster.
C4_AllOrNothing ==
    \A c \in Cells : store[CellKey(c)] \in {initStore[CellKey(c)], NewRaster(c)}

C4_Witness ==
    \E c \in Cells : /\ runState = "cancelled" /\ i = c /\ pc = "upload"
                     /\ store[CellKey(c)] = OldRaster(c)
                     /\ \E d \in Cells : raised[d] = "render"

-----------------------------------------------------------------------------
(* fix_bad_epsgs applied again and again to one item collection            *)
(* (landsat_utils.py:40-48; evi.py:61-69 is the same text).                 *)

MaxItems == 2
MaxZone == 6
MaxApplications == 3

\* proj:epsg values: UTM north and south codes with their two zone digits,
\* the truncated four-digit form, codes with a three-digit zone field, and
\* identifiers with no zone digits at all
EpsgCodes ==
    {32, 326, 4326, 326018}
        \cup {3260 + z : z \in 1..Min(9, MaxZone)}
        \cup {32600 + z : z \in 0..MaxZone}
        \cup {32700 + z : z \in 0..MaxZone}

EpsgCollections ==
    UNION {[1..n -> EpsgCodes] : n \in 0..MaxItems}

EpsgStart ==
    /\ epsg_items \in EpsgCollections
    /\ epsg_hist = <<epsg_items>>
    /\ epsg_state = "ok"

notEpsg == <<runVars, bboxVars, quantVars, maskVars, mosaicVars,
             rasterVars, wofsVars>>

\* one call fix_bad_epsgs(item_collection); a ValueError ends the caller
ApplyFix ==
    /\ epsg_state = "ok"
    /\ Len(epsg_hist) <= MaxApplications
    /\ LET r == fix_bad_epsgs(epsg_items)
       IN  /\ epsg_items' = r.items
           /\ epsg_hist' = Append(epsg_hist, r.items)
           /\ epsg_state' = IF r.raised THEN "raised" ELSE "ok"
    /\ UNCHANGED notEpsg

InitEpsg ==
    EpsgStart /\ IdleRun /\ IdleBbox /\ IdleQuant /\ IdleMask /\ IdleMosaic
    /\ IdleRaster /\ IdleWofs

NextEpsg == ApplyFix

SpecEpsg == InitEpsg /\ [][NextEpsg]_vars

\* C9: fix_bad_epsgs is idempotent: when one application succeeds, every
\* later application succeeds and leaves each item's proj:epsg as the first
\* application left it; and a five-digit identifier (three-digit prefix, two
\* zone digits) is left unchanged by the first application.
C9_FixIdempotent ==
    /\ \A k \in 3..Len(epsg_hist) : epsg_hist[k] = epsg_hist[2]
    /\ Len(epsg_hist) >= 3 => epsg_state = "ok"
    /\ Len(epsg_hist) >= 2 =>
          \A n \in 1..Len(epsg_hist[1]) :
             (epsg_hist[1][n] >= 10000 /\ epsg_hist[1][n] <= 99999
                 /\ (epsg_state = "ok" \/ n < Len(epsg_hist[1])))
                => epsg_hist[2][n] = epsg_hist[1][n]

\* a truncated identifier was repaired by the first application and a
\* well-formed one kept, and the function has been applied again
C9_Witness ==
    /\ Len(epsg_hist) >= 3
    /\ epsg_hist[1] = <<3265, 32603>>
    /\ epsg_hist[2] = <<32605, 32603>>

-----------------------------------------------------------------------------
(* get_bbox: landsat_utils.py:51-59 (used by process_wofs and fc_by_scene)  *)
(* and evi.py:72-79 (used by process_by_scene).                             *)
(*                                                                         *)
(* A longitude is deg + pico * 10^-12 degrees with |pico| small, so that    *)
(* the literals -179.9999999999 and -179.999999999999 of the two variants   *)
(* are represented exactly; a latitude is a whole number of degrees.        *)

LonStep == 10
LatStep == 20

Lon(d, p) == [deg |-> d, pico |-> p]
LonLess(a, b) == a.deg < b.deg \/ (a.deg = b.deg /\ a.pico < b.pico)
LonLeq(a, b) == a = b \/ LonLess(a, b)
Zero == Lon(0, 0)

\* gpdf.to_crs("EPSG:4326").bounds.values[0]: [minx, miny, maxx, maxy]
BoundsValues ==
    LET lons == {d \in -180..180 : d % LonStep = 0}
        lats == {d \in -40..0 : d % LatStep = 0}
    IN  {<<Lon(q[1], 0), q[3], Lon(q[2], 0), q[4]>> :
            q \in {r \in lons \X lons \X lats \X lats :
                      r[1] <= r[2] /\ r[3] <= r[4]}}

\* landsat_utils.py:54: bbox[0] < 0 and bbox[2] > 0
bbox_crosses_antimeridian(bbox) == LonLess(bbox[1], Zero) /\ LonLess(Zero, bbox[3])

\* landsat_utils.py:51-59
get_bbox_landsat_utils(bbox) ==
    IF bbox_crosses_antimeridian(bbox)
    THEN [bbox EXCEPT ![1] = Lon(-180, 100), ![3] = Lon(180, -100)]
    ELSE bbox

\* evi.py:72-79: bbox[2] = bbox[0], then bbox[0] = -179.999999999999
get_bbox_evi(bbox) ==
    IF bbox_crosses_antimeridian(bbox)
    THEN [bbox EXCEPT ![3] = bbox[1], ![1] = Lon(-180, 1)]
    ELSE bbox

BboxStart ==
    /\ bbox_variant \in {"landsat_utils", "evi"}
    /\ bbox_in \in BoundsValues
    /\ bbox_out = <<>>
    /\ bbox_pc = "call"

notBbox == <<runVars, epsgVars, quantVars, maskVars, mosaicVars,
             rasterVars, wofsVars>>

GetBboxLandsatUtils ==
    /\ bbox_pc = "call" /\ bbox_variant = "landsat_utils"
    /\ bbox_out' = get_bbox_landsat_utils(bbox_in)
    /\ bbox_pc' = "returned"
    /\ UNCHANGED <<bbox_variant, bbox_in, notBbox>>

GetBboxEvi ==
    /\ bbox_pc = "call" /\ bbox_variant = "evi"
    /\ bbox_out' = get_bbox_evi(bbox_in)
    /\ bbox_pc' = "returned"
    /\ UNCHANGED <<bbox_variant, bbox_in, notBbox>>

InitBbox ==
    BboxStart /\ IdleRun /\ IdleEpsg /\ IdleQuant /\ IdleMask /\ IdleMosaic
    /\ IdleRaster /\ IdleWofs

NextBbox ==
    \/ GetBboxLandsatUtils
    \/ GetBboxEvi

SpecBbox == InitBbox /\ [][NextBbox]_vars

\* the box's longitude range holds the whole stretch from a to b
CoversLons(box, a, b) == LonLeq(box[1], a) /\ LonLeq(b, box[3])

\* C5: for a cell near the antimeridian whose bounds have min-longitude < 0
\* and max-longitude > 0 (such as [-170, lat0, 170, lat1]), either get_bbox
\* returns a box that does not span the globe: its longitude range does not
\* cover the stretch between the two original longitudes through 0, and the
\* latitudes are unchanged.
C5_AntimeridianBoxNotGlobal ==
    (/\ bbox_pc = "returned"
     /\ LonLeq(bbox_in[1], Lon(-170, 0)) /\ LonLeq(Lon(170, 0), bbox_in[3]))
    => /\ ~CoversLons(bbox_out, bbox_in[1], bbox_in[3])
       /\ ~CoversLons(bbox_out, Zero, Zero)
       /\ bbox_out[2] = bbox_in[2] /\ bbox_out[4] = bbox_in[4]

\* the same for the variant of evi.py alone
C5_EviVariantOnly == bbox_variant = "evi" => C5_AntimeridianBoxNotGlobal

-----------------------------------------------------------------------------
(* The quantizer: scale_to_int16 (utils.py:61-70) as process_wofs calls it  *)
(* (wofs.py:131) and the inline quantization of process_by_scene            *)
(* (evi.py:156-162):                                                        *)
(*    np.multiply(da, multiplier).where(da.notnull(), nodata).astype("int16")*)
(*                                                                         *)
(* A pixel value is null or a whole number of units of 1 / UnitsPerOne, so  *)
(* that value * multiplier is an exact fraction for both multipliers.       *)

OUTPUT_VALUE_MULTIPLIER_wofs == 10000
OUTPUT_VALUE_MULTIPLIER_evi == 1000
OUTPUT_NODATA == -32767

UnitsPerOne == 2 * OUTPUT_VALUE_MULTIPLIER_wofs

\* how far, in stored steps, the values reach around each anchor
QSpan == 2

Int16Min == -(2 ^ 15)
Int16Max == (2 ^ 15) - 1
InInt16(n) == Int16Min <= n /\ n <= Int16Max

Null == [isnull |-> TRUE, units |-> 0]
Value(n) == [isnull |-> FALSE, units |-> n]

\* the values tried for a multiplier: those whose product with it lies within
\* QSpan stored steps of 0 and of either end of the int16 range
QValues(multiplier) ==
    LET step == UnitsPerOne \div multiplier
    IN  {Value((a * step) + d) :
            a \in {Int16Min, 0, Int16Max + 1}, d \in -(QSpan * step)..(QSpan * step)}

\* the integer part of num / den (den > 0), toward zero
TruncDiv(num, den) == IF num >= 0 THEN num \div den ELSE -((-num) \div den)

\* two's complement wrap to 16 bits
Wrap16(n) == ((n - Int16Min) % (2 ^ 16)) + Int16Min

Saturate16(n) == IF n < Int16Min THEN Int16Min ELSE IF n > Int16Max THEN Int16Max ELSE n

\* astype("int16") of the float num / den: the fraction is dropped; the cast
\* of a float outside the int16 range is undefined in C and gives, depending
\* on the build, the wrapped or the saturated value
AsInt16(num, den) ==
    LET t == TruncDiv(num, den)
    IN  IF InInt16(t) THEN {t} ELSE {Wrap16(t), Saturate16(t)}

\* np.multiply(da, m).where(da.notnull(), nodata).astype("int16") on one pixel:
\* the integers the build may store
quantize(v, multiplier, nodata) ==
    IF v.isnull THEN AsInt16(nodata, 1)
    ELSE AsInt16(v.units * multiplier, UnitsPerOne)

QuantStart ==
    /\ q_variant \in {"scale_to_int16", "process_by_scene"}
    /\ q_in \in {Null} \cup
                (IF q_variant = "scale_to_int16"
                 THEN QValues(OUTPUT_VALUE_MULTIPLIER_wofs)
                 ELSE QValues(OUTPUT_VALUE_MULTIPLIER_evi))
    /\ q_stored = 0
    /\ q_pc = "call"

notQuant == <<runVars, epsgVars, bboxVars, maskVars, mosaicVars,
              rasterVars, wofsVars>>

\* utils.py:61-70, called at wofs.py:131
scale_to_int16 ==
    /\ q_pc = "call" /\ q_variant = "scale_to_int16"
    /\ q_stored' \in quantize(q_in, OUTPUT_VALUE_MULTIPLIER_wofs, OUTPUT_NODATA)
    /\ q_pc' = "stored"
    /\ UNCHANGED <<q_variant, q_in, notQuant>>

\* evi.py:156-162
scaled_results ==
    /\ q_pc = "call" /\ q_variant = "process_by_scene"
    /\ q_stored' \in quantize(q_in, OUTPUT_VALUE_MULTIPLIER_evi, OUTPUT_NODATA)
    /\ q_pc' = "stored"
    /\ UNCHANGED <<q_variant, q_in, notQuant>>

InitQuant ==
    QuantStart /\ IdleRun /\ IdleEpsg /\ IdleBbox /\ IdleMask /\ IdleMosaic
    /\ IdleRaster /\ IdleWofs

NextQuant ==
    \/ scale_to_int16
    \/ scaled_results

SpecQuant == InitQuant /\ [][NextQuant]_vars

Multiplier == IF q_variant = "scale_to_int16" THEN OUTPUT_VALUE_MULTIPLIER_wofs
              ELSE OUTPUT_VALUE_MULTIPLIER_evi

Abs(n) == IF n < 0 THEN -n ELSE n

\* C6: a null pixel is stored as nodata, and a valid pixel is never stored as
\* nodata, also when value * multiplier is -32767 or lies outside the int16
\* range.
C6_NodataOnlyForNull ==
    q_pc = "stored" => (q_stored = OUTPUT_NODATA <=> q_in.isnull)

\* C6, the half the code keeps: a null pixel is stored as nodata
C6_NullIsNodata ==
    (q_pc = "stored" /\ q_in.isnull) => q_stored = OUTPUT_NODATA

\* C7: for a valid value whose product with the multiplier is inside the
\* int16 range, the stored integer is the nearest integer to value *
\* multiplier (at most half a step away), not its truncation.
C7_StoresNearest ==
    (/\ q_pc = "stored" /\ ~q_in.isnull
     /\ Int16Min * UnitsPerOne <= q_in.units * Multiplier
     /\ q_in.units * Multiplier <= Int16Max * UnitsPerOne)
    => 2 * Abs((q_stored * UnitsPerOne) - (q_in.units * Multiplier)) <= UnitsPerOne

\* C7, what the code keeps: the stored integer is less than one step away,
\* so stored / multiplier recovers the value within 1 / multiplier
C7_WithinOneStep ==
    (/\ q_pc = "stored" /\ ~q_in.isnull
     /\ Int16Min * UnitsPerOne <= q_in.units * Multiplier
     /\ q_in.units * Multiplier <= Int16Max * UnitsPerOne)
    => Abs((q_stored * UnitsPerOne) - (q_in.units * Multiplier)) < UnitsPerOne

-----------------------------------------------------------------------------
(* The quality masker: mask_clouds (landsat_utils.py:11-20) and             *)
(* mask_landsat_clouds (evi.py:32-41), on one pixel at one time step.       *)

\* qa_pixel values tried: 0..QaMax, alone and on top of the high bits of a
\* clear Landsat 8 pixel (21824)
QaMax == 63
QaHigh == 21824

ValueBands == {"red", "nir08"}
Bands == ValueBands \cup {"qa_pixel"}

Pixels ==
    {[b \in Bands |-> IF b = "qa_pixel" THEN q ELSE v[b]] :
        q \in {Null} \cup {Value(h + n) : h \in {0, QaHigh}, n \in 0..QaMax},
        v \in [ValueBands -> {Null, Value(7500)}]}

RECURSIVE BitAnd(_, _)
\* a & b for non-negative integers
BitAnd(a, b) ==
    IF a = 0 \/ b = 0 THEN 0
    ELSE ((a % 2) * (b % 2)) + (2 * BitAnd(a \div 2, b \div 2))

RECURSIVE BitOr(_, _)
\* a | b for non-negative integers
BitOr(a, b) ==
    IF a = 0 THEN b
    ELSE IF b = 0 THEN a
    ELSE (IF (a % 2) + (b % 2) > 0 THEN 1 ELSE 0) + (2 * BitOr(a \div 2, b \div 2))

RECURSIVE BitmaskFrom(_, _, _)
\* for field in mask_bitfields: bitmask |= 1 << field
BitmaskFrom(fields, k, bitmask) ==
    IF k > Len(fields) THEN bitmask
    ELSE BitmaskFrom(fields, k + 1, BitOr(bitmask, 2 ^ fields[k]))

\* astype("uint16") of the qa band: the cast of a null (NaN) is undefined
AsUint16(v) == IF v.isnull THEN {0, (2 ^ 16) - 1} ELSE {v.units % (2 ^ 16)}

\* xr.where(bad == 0): every band kept where bad is 0, null elsewhere
WhereNotBad(xr, bad) == [b \in Bands |-> IF bad = 0 THEN xr[b] ELSE Null]

\* the bit positions taken one too low
mask_clouds_shifted(xr, qa) ==
    LET mask_bitfields == <<0, 1, 2, 3>>
        bitmask == BitmaskFrom(mask_bitfields, 1, 0)
        bad == BitAnd(qa, bitmask)
    IN  WhereNotBad(xr, bad)

\* landsat_utils.py:11-20; qa is xr.sel(band="qa_pixel").astype("uint16")
mask_clouds(xr, qa) ==
    LET mask_bitfields == <<1, 2, 3, 4>>
        bitmask == BitmaskFrom(mask_bitfields, 1, 0)
        bad == BitAnd(qa, bitmask)
    IN  WhereNotBad(xr, bad)

\* evi.py:32-41
mask_landsat_clouds(xr, qa) ==
    LET mask_bitfields == <<1, 2, 3, 4>>
        bitmask == BitmaskFrom(mask_bitfields, 1, 0)
        bad == BitAnd(qa, bitmask)
    IN  WhereNotBad(xr, bad)

MaskStart ==
    /\ mask_variant \in {"mask_clouds", "mask_landsat_clouds"}
    /\ mask_in \in Pixels
    /\ mask_out = <<>>
    /\ mask_pc = "call"

notMask == <<runVars, epsgVars, bboxVars, quantVars, mosaicVars,
             rasterVars, wofsVars>>

MaskClouds ==
    /\ mask_pc = "call" /\ mask_variant = "mask_clouds"
    /\ \E qa \in AsUint16(mask_in["qa_pixel"]) : mask_out' = mask_clouds(mask_in, qa)
    /\ mask_pc' = "masked"
    /\ UNCHANGED <<mask_variant, mask_in, notMask>>

MaskLandsatClouds ==
    /\ mask_pc = "call" /\ mask_variant = "mask_landsat_clouds"
    /\ \E qa \in AsUint16(mask_in["qa_pixel"]) :
          mask_out' = mask_landsat_clouds(mask_in, qa)
    /\ mask_pc' = "masked"
    /\ UNCHANGED <<mask_variant, mask_in, notMask>>

InitMask ==
    MaskStart /\ IdleRun /\ IdleEpsg /\ IdleBbox /\ IdleQuant /\ IdleMosaic
    /\ IdleRaster /\ IdleWofs

NextMask ==
    \/ MaskClouds
    \/ MaskLandsatClouds

SpecMask == InitMask /\ [][NextMask]_vars

\* bits 1, 2, 3 and 4 of q (dilated cloud, cirrus, cloud, cloud shadow): the
\* value of q AND 30, halved
CloudBits(q) == (q \div 2) % 16

\* C8: for every pixel and time step with a non-null input, every band of the
\* output is null if and only if qa_pixel AND 30 (bits 1 to 4) is nonzero,
\* and where the AND is zero the output equals the input.
C8_MaskedIffCloudBits ==
    (mask_pc = "masked" /\ ~mask_in["qa_pixel"].isnull) =>
        \A b \in Bands : ~mask_in[b].isnull =>
            /\ mask_out[b].isnull <=> CloudBits(mask_in["qa_pixel"].units) # 0
            /\ CloudBits(mask_in["qa_pixel"].units) = 0 => mask_out[b] = mask_in[b]

\* a cloud-shadow pixel (bit 4 alone) with valid reflectance has been masked
C8_Witness ==
    /\ mask_pc = "masked"
    /\ mask_in["qa_pixel"] = Value(QaHigh + 16)
    /\ ~mask_in["red"].isnull /\ mask_out["red"].isnull

-----------------------------------------------------------------------------
(* The mosaic builder: mosaic_files (utils.py:180-206), called by the main  *)
(* block of fractional_cover.py (135-143) without an overwrite argument,    *)
(* and mosaic_tiles of evi.py (177-208), called by its main block           *)
(* (222-224).                                                               *)
(*                                                                         *)
(* A mosaic file is its build number (0: no file) and the scale recorded in *)
(* it, written as the multiplier m of the scale factor 1 / m (1: the        *)
(* default scale of a freshly materialized raster).                         *)

MaxBuilds == 2
NTiles == 2
Prefixes == {"fc_2021", "evi_2021", "wofs_2021"}
Tiles == 1 .. NTiles
NoFile == [build |-> 0, scale |-> 1]
IsFile(f) == f.build > 0
\* utils.py:187: scale_factor: float = None
ScaleNone == 0
\* utils.py:129: create_tiles passes scale_factor=1.0 / 1000, given as 1000
create_tiles_scale_factor == 1000
\* scale_factor arguments: None, or 1 / m given as m
ScaleFactors == {ScaleNone, OUTPUT_VALUE_MULTIPLIER_evi, OUTPUT_VALUE_MULTIPLIER_wofs}

\* the multiplier the per-cell rasters of a product were written with:
\* evi.py:156-162 multiplies by 1000, wofs.py:131 by 10000, and
\* fractional_cover.py:98 casts to uint8 with no multiplier (the
\* scale_to_int16 call at fractional_cover.py:109 is commented out)
QuantMultiplier(prefix) ==
    CASE prefix = "evi_2021" -> OUTPUT_VALUE_MULTIPLIER_evi
      [] prefix = "wofs_2021" -> OUTPUT_VALUE_MULTIPLIER_wofs
      [] prefix = "fc_2021" -> 1

NoCall == [entry |-> "none", prefix |-> "none", overwrite |-> "absent",
           existed |-> FALSE, before |-> NoFile, vrts |-> 0]

MosaicStart ==
    /\ mosaic \in [Prefixes -> {NoFile} \cup [build : {1}, scale : ScaleFactors \ {ScaleNone}]]
    /\ vrt_builds = [p \in Prefixes |-> 0]
    /\ last_call = NoCall
    /\ IdleTiles

notMosaic == <<runVars, epsgVars, bboxVars, quantVars, maskVars,
               rasterVars, wofsVars>>

Builds == vrt_builds["fc_2021"] + vrt_builds["evi_2021"] + vrt_builds["wofs_2021"]

\* utils.py:193-206: build the VRT, write the mosaic, then set the scale
\* when one was given; a raster written without one has scale 1
Materialize(prefix, scale) ==
    /\ vrt_builds' = [vrt_builds EXCEPT ![prefix] = @ + 1]
    /\ mosaic' = [mosaic EXCEPT ![prefix] =
                     [build |-> @.build + 1,
                      scale |-> IF scale = ScaleNone THEN 1 ELSE scale]]

Called(entry, prefix, overwrite) ==
    last_call' = [entry |-> entry, prefix |-> prefix, overwrite |-> overwrite,
                  existed |-> IsFile(mosaic[prefix]), before |-> mosaic[prefix],
                  vrts |-> vrt_builds[prefix]]

\* utils.py:188: overwrite: bool = True
OverwriteValue(overwrite) == IF overwrite = "absent" THEN TRUE ELSE overwrite = "True"

\* utils.py:180-206
mosaic_files(entry, prefix, scale_factor, overwrite) ==
    /\ Called(entry, prefix, overwrite)
    /\ IF ~IsFile(mosaic[prefix]) \/ OverwriteValue(overwrite)
       THEN Materialize(prefix, scale_factor)
       ELSE UNCHANGED <<mosaic, vrt_builds>>

NoTileCall == tiles_pc # "upload"

\* a caller that passes overwrite
MosaicFilesWithOverwrite ==
    /\ Builds < MaxBuilds /\ NoTileCall
    /\ \E prefix \in Prefixes, scale_factor \in ScaleFactors,
          overwrite \in {"True", "False"} :
          mosaic_files("mosaic_files", prefix, scale_factor, overwrite)
    /\ UNCHANGED <<tileVars, notMosaic>>

\* fractional_cover.py:138-143: no overwrite argument
FractionalCoverMain ==
    /\ Builds < MaxBuilds /\ NoTileCall
    /\ mosaic_files("fractional_cover", "fc_2021", OUTPUT_VALUE_MULTIPLIER_wofs, "absent")
    /\ UNCHANGED <<tileVars, notMosaic>>

\* evi.py:177-208: always rebuilds.  evi.py:208 assigns
\* dst.scales = [OUTPUT_SCALE_FACTOR], a list holding the list [0.001]
\* (evi.py:28): the raster library either takes it as the one scale 0.001 or
\* rejects it after the raster is written, which leaves the scale at 1
mosaic_tiles ==
    /\ Builds < MaxBuilds /\ NoTileCall
    /\ Called("mosaic_tiles", "evi_2021", "absent")
    /\ \E scale \in {OUTPUT_VALUE_MULTIPLIER_evi, ScaleNone} :
          Materialize("evi_2021", scale)
    /\ UNCHANGED <<tileVars, notMosaic>>

\* utils.py:111-161: remake the mosaic (utils.py:120-131), colour it and cut
\* the tile pyramid under data/tiles/<prefix>; without a mosaic file there is
\* nothing to colour and the call ends with an error
create_tiles(prefix, remake_mosaic, generated) ==
    /\ IF remake_mosaic
       THEN /\ Builds < MaxBuilds
            /\ mosaic_files("create_tiles", prefix, create_tiles_scale_factor, "True")
       ELSE UNCHANGED <<mosaic, vrt_builds, last_call>>
    /\ tiles_prefix' = prefix
    /\ uploaded_tiles' = {}
    /\ tiles_failed' = 0
    /\ IF IsFile(mosaic'[prefix])
       THEN /\ local_tiles' = generated
            /\ tiles_listed' = generated
            /\ tiles_todo' = generated
            /\ tiles_pc' = "upload"
       ELSE /\ local_tiles' = {}
            /\ tiles_listed' = {}
            /\ tiles_todo' = {}
            /\ tiles_pc' = "raised"

CreateTiles ==
    /\ NoTileCall
    /\ \E prefix \in Prefixes, remake_mosaic \in BOOLEAN, n \in 0 .. NTiles :
          create_tiles(prefix, remake_mosaic, 1 .. n)
    /\ UNCHANGED notMosaic

\* a mutation of upload_blob_raises: the local file is unlinked although
\* its upload failed
upload_blob_raises_unlinked(t) ==
    /\ tiles_pc' = "raised"
    /\ tiles_failed' = t
    /\ local_tiles' = local_tiles \ {t}
    /\ UNCHANGED <<tiles_todo, uploaded_tiles>>

\* utils.py:168 raises: nothing catches it, so utils.py:169 is not reached
\* and the loop ends
upload_blob_raises(t) ==
    /\ tiles_pc' = "raised"
    /\ tiles_failed' = t
    /\ UNCHANGED <<local_tiles, tiles_todo, uploaded_tiles>>

\* utils.py:163-169: one file of the loop, uploaded and then unlinked
UploadTile ==
    /\ tiles_pc = "upload"
    /\ \E t \in tiles_todo :
          /\ uploaded_tiles' = uploaded_tiles \cup {t}
          /\ local_tiles' = local_tiles \ {t}
          /\ tiles_todo' = tiles_todo \ {t}
    /\ UNCHANGED <<tiles_pc, tiles_prefix, tiles_listed, tiles_failed>>
    /\ UNCHANGED <<mosaic, vrt_builds, last_call, notMosaic>>

UploadTileRaises ==
    /\ tiles_pc = "upload"
    /\ \E t \in tiles_todo : upload_blob_raises(t)
    /\ UNCHANGED <<tiles_prefix, tiles_listed>>
    /\ UNCHANGED <<mosaic, vrt_builds, last_call, notMosaic>>

\* the loop at utils.py:163 has visited every file: create_tiles returns
CreateTilesReturn ==
    /\ tiles_pc = "upload" /\ tiles_todo = {}
    /\ tiles_pc' = "returned"
    /\ UNCHANGED <<tiles_prefix, local_tiles, tiles_todo, uploaded_tiles,
                   tiles_listed, tiles_failed>>
    /\ UNCHANGED <<mosaic, vrt_builds, last_call, notMosaic>>

InitMosaic ==
    MosaicStart /\ IdleRun /\ IdleEpsg /\ IdleBbox /\ IdleQuant /\ IdleMask
    /\ IdleRaster /\ IdleWofs

NextMosaic ==
    \/ MosaicFilesWithOverwrite
    \/ FractionalCoverMain
    \/ mosaic_tiles
    \/ CreateTiles
    \/ UploadTile
    \/ UploadTileRaises
    \/ CreateTilesReturn

SpecMosaic == InitMosaic /\ [][NextMosaic]_vars

-----------------------------------------------------------------------------
(* Claims about the mosaic builder and the tile pyramid.                    *)

LastCallBuiltNothing ==
    /\ mosaic[last_call.prefix] = last_call.before
    /\ vrt_builds[last_call.prefix] = last_call.vrts

\* C10: whenever the mosaic file of a prefix exists and the caller has not
\* explicitly requested an overwrite (callers that pass no overwrite argument
\* included), the call builds no VRT and leaves the mosaic file unchanged.
C10_ExistingMosaicKept ==
    (/\ last_call.entry \in {"mosaic_files", "fractional_cover"}
     /\ last_call.existed
     /\ last_call.overwrite # "True")
    => LastCallBuiltNothing

\* C10, what the code keeps: an existing mosaic is kept when the caller of
\* mosaic_files passes overwrite=False
C10_KeptOnOverwriteFalse ==
    (last_call.existed /\ last_call.overwrite = "False") => LastCallBuiltNothing

Materialized ==
    /\ last_call.entry # "none"
    /\ mosaic[last_call.prefix].build > last_call.before.build

\* C11: after a materialization through any entry point of the repository
\* (mosaic_files called by the fractional-cover script, mosaic_files called
\* by create_tiles, mosaic_tiles of evi.py) the scale recorded in the mosaic
\* is 1 / multiplier for the multiplier the product's per-cell rasters were
\* written with.
C11_ScaleIsInverseMultiplier ==
    (last_call.entry \in {"fractional_cover", "create_tiles", "mosaic_tiles"}
        /\ Materialized)
    => mosaic[last_call.prefix].scale = QuantMultiplier(last_call.prefix)

DeletedTiles == tiles_listed \ local_tiles

\* C13: in create_tiles a local tile file is deleted only after its own
\* upload has completed; a file whose upload failed is still on disk; and
\* when create_tiles has returned, every file found under the tile directory
\* has been uploaded and none is left on disk.
C13_DeletedOnlyAfterUpload ==
    /\ DeletedTiles \subseteq uploaded_tiles
    /\ tiles_failed # 0 =>
          tiles_failed \in local_tiles /\ tiles_failed \notin uploaded_tiles
    /\ tiles_pc = "returned" =>
          local_tiles = {} /\ tiles_listed \subseteq uploaded_tiles

\* one file uploaded and deleted, then the upload of the next one failed
C13_Witness ==
    /\ tiles_pc = "raised" /\ tiles_failed = 2
    /\ uploaded_tiles = {1} /\ local_tiles = {2} /\ tiles_listed = {1, 2}

-----------------------------------------------------------------------------
(* to_raster of the mosaic: the dask workers of the client each write       *)
(* chunks of the VRT into the one output file.  A chunk write opens the     *)
(* file for update, writes its window and closes the file, under the lock   *)
(* handed to to_raster.                                                     *)

NWorkers == 2
NChunks == 3
Workers == 1 .. NWorkers
Chunks == 1 .. NChunks

RasterStart ==
    /\ raster_entry \in {"mosaic_files", "mosaic_tiles"}
    /\ raster_pc = "storing"
    /\ chunks_todo = Chunks
    /\ worker_pc = [w \in Workers |-> "idle"]
    /\ worker_chunk = [w \in Workers |-> 0]
    /\ worker_view = [w \in Workers |-> {}]
    /\ lock_holder = 0
    /\ file_chunks = {}
    /\ chunks_written = {}

notRaster == <<runVars, epsgVars, bboxVars, quantVars, maskVars, mosaicVars,
               wofsVars>>

\* a mutation of LockFree: to_raster is given no lock, nothing is waited for
LockNotPassed == TRUE

\* utils.py:201, evi.py:204: lock=Lock("rio", client=client), one named lock
\* of the cluster; acquire blocks while another worker holds it
LockFree == lock_holder = 0

\* a worker is handed the write of one chunk
TakeChunk ==
    /\ raster_pc = "storing"
    /\ \E w \in Workers, c \in chunks_todo :
          /\ worker_pc[w] = "idle"
          /\ worker_pc' = [worker_pc EXCEPT ![w] = "waiting"]
          /\ worker_chunk' = [worker_chunk EXCEPT ![w] = c]
          /\ chunks_todo' = chunks_todo \ {c}
    /\ UNCHANGED <<raster_entry, raster_pc, worker_view, lock_holder, file_chunks,
                   chunks_written>>
    /\ UNCHANGED notRaster

\* the worker acquires the lock and opens the file for update
AcquireAndOpen ==
    /\ raster_pc = "storing"
    /\ \E w \in Workers :
          /\ worker_pc[w] = "waiting"
          /\ LockFree
          /\ lock_holder' = w
          /\ worker_view' = [worker_view EXCEPT ![w] = file_chunks]
          /\ worker_pc' = [worker_pc EXCEPT ![w] = "writing"]
    /\ UNCHANGED <<raster_entry, raster_pc, chunks_todo, worker_chunk, file_chunks,
                   chunks_written>>
    /\ UNCHANGED notRaster

\* the worker writes its window, closes the file and releases the lock
WriteAndRelease ==
    /\ raster_pc = "storing"
    /\ \E w \in Workers :
          /\ worker_pc[w] = "writing"
          /\ file_chunks' = worker_view[w] \cup {worker_chunk[w]}
          /\ chunks_written' = chunks_written \cup {worker_chunk[w]}
          /\ lock_holder' = 0
          /\ worker_pc' = [worker_pc EXCEPT ![w] = "idle"]
          /\ worker_chunk' = [worker_chunk EXCEPT ![w] = 0]
          /\ worker_view' = [worker_view EXCEPT ![w] = {}]
    /\ UNCHANGED <<raster_entry, raster_pc, chunks_todo>>
    /\ UNCHANGED notRaster

\* every chunk write has completed: to_raster returns
ToRasterReturn ==
    /\ raster_pc = "storing"
    /\ chunks_todo = {}
    /\ \A w \in Workers : worker_pc[w] = "idle"
    /\ raster_pc' = "returned"
    /\ UNCHANGED <<raster_entry, chunks_todo, worker_pc, worker_chunk, worker_view,
                   lock_holder, file_chunks, chunks_written>>
    /\ UNCHANGED notRaster

InitRaster ==
    RasterStart /\ IdleRun /\ IdleEpsg /\ IdleBbox /\ IdleQuant /\ IdleMask
    /\ IdleMosaic /\ IdleWofs

NextRaster ==
    \/ TakeChunk
    \/ AcquireAndOpen
    \/ WriteAndRelease
    \/ ToRasterReturn

SpecRaster == InitRaster /\ [][NextRaster]_vars

Writers == {w \in Workers : worker_pc[w] = "writing"}
Waiters == {w \in Workers : worker_pc[w] = "waiting"}

\* C12: the chunk writes of the workers to the mosaic file are serialized by
\* the one lock handed to to_raster: at most one worker is writing the file,
\* the writer is the holder of the lock, a worker that finds the lock held
\* waits for a holder that is writing (and so can release), and no chunk
\* write is lost: the file holds every chunk whose write has completed, and
\* all chunks once to_raster has returned.
C12_WritesSerialized ==
    /\ Cardinality(Writers) <= 1
    /\ \A w \in Writers : lock_holder = w
    /\ (Waiters # {} /\ lock_holder # 0) => lock_holder \in Writers
    /\ file_chunks = chunks_written
    /\ raster_pc = "returned" => file_chunks = Chunks

\* one worker is writing a chunk while the other waits for the lock, after
\* an earlier chunk was written
C12_Witness ==
    /\ raster_pc = "storing"
    /\ Writers # {} /\ Waiters # {}
    /\ chunks_written # {}

-----------------------------------------------------------------------------
(* The decision-tree water classifier wofs (wofs.py:29-74) on one pixel.    *)
(* Reflectances are integers (the tree's units, reflectance * 10000) or     *)
(* null; a comparison with a null (NaN) operand is false, and ~ of it true. *)

WofsBands == {"blue", "green", "red", "nir08", "swir16", "swir22"}

\* the inputs: per band, null and values on each side of the thresholds the
\* tree applies to it
WofsPixels ==
    {[blue |-> b, green |-> g, red |-> r, nir08 |-> n, swir16 |-> s1, swir22 |-> s2] :
        b \in {Null, Value(100), Value(250), Value(1500)},
        g \in {Null, Value(1000)},
        r \in {Null, Value(300), Value(500)},
        n \in {Null, Value(200), Value(1000)},
        s1 \in {Null, Value(500), Value(900), Value(1100), Value(1700), Value(2500)},
        s2 \in {Null, Value(300), Value(400), Value(900)}}

NoWater == [isnull |-> TRUE, water |-> FALSE]

WofsStart ==
    /\ wofs_in \in WofsPixels
    /\ wofs_out = NoWater
    /\ wofs_pc = "call"

notWofs == <<runVars, epsgVars, bboxVars, quantVars, maskVars, mosaicVars,
             rasterVars>>

notnull(v) == ~v.isnull

\* wofs.py:29-30: (band1 - band2) / (band1 + band2), kept as a fraction;
\* 0 / 0 and any null operand give NaN, x / 0 an infinity of the sign of x
normalized_ratio(band1, band2) ==
    IF band1.isnull \/ band2.isnull
    THEN [nan |-> TRUE, num |-> 0, den |-> 0]
    ELSE [nan |-> (band1.units - band2.units = 0) /\ (band1.units + band2.units = 0),
          num |-> band1.units - band2.units,
          den |-> band1.units + band2.units]

\* ratio <= hundredths / 100
RatioLeq(ratio, hundredths) ==
    /\ ~ratio.nan
    /\ IF ratio.den > 0 THEN 100 * ratio.num <= hundredths * ratio.den
       ELSE IF ratio.den < 0 THEN 100 * ratio.num >= hundredths * ratio.den
       ELSE ratio.num < 0

\* band <= halves / 2
BandLeq(band, halves) == notnull(band) /\ 2 * band.units <= halves

ndi52(tm) == normalized_ratio(tm.swir16, tm.green)
ndi43(tm) == normalized_ratio(tm.nir08, tm.red)
ndi72(tm) == normalized_ratio(tm.swir22, tm.green)

d1(tm) == RatioLeq(ndi52(tm), -1)
l2(tm) == d1(tm) /\ BandLeq(tm.blue, 4167)
d3(tm) == BandLeq(tm.swir22, 647)
l3(tm) == l2(tm) /\ d3(tm)
w1(tm) == l3(tm) /\ RatioLeq(ndi43(tm), 61)
r3(tm) == l2(tm) /\ ~d3(tm)
d5(tm) == BandLeq(tm.blue, 2801)
d6(tm) == RatioLeq(ndi72(tm), -23)
d7(tm) == RatioLeq(ndi43(tm), 22)
w2(tm) == r3(tm) /\ d5(tm) /\ d6(tm) /\ d7(tm)
w3(tm) == r3(tm) /\ d5(tm) /\ d6(tm) /\ ~d7(tm) /\ BandLeq(tm.blue, 946)
w4(tm) == r3(tm) /\ d5(tm) /\ ~d6(tm) /\ BandLeq(tm.blue, 758)
w7(tm) == r3(tm) /\ ~d5(tm) /\ RatioLeq(ndi43(tm), -1)
d11(tm) == RatioLeq(ndi52(tm), 23)
l13(tm) == ~d1(tm) /\ d11(tm) /\ BandLeq(tm.blue, 669) /\ RatioLeq(ndi43(tm), 54)
d14(tm) == RatioLeq(ndi52(tm), -12)
w5(tm) == l13(tm) /\ d14(tm)
r14(tm) == l13(tm) /\ ~d14(tm)
d15(tm) == BandLeq(tm.red, 729)
w6(tm) == r14(tm) /\ d15(tm) /\ BandLeq(tm.blue, 259)
w8(tm) == r14(tm) /\ ~d15(tm) /\ BandLeq(tm.blue, 601)
w10(tm) ==
    /\ ~d1(tm) /\ ~d11(tm) /\ RatioLeq(ndi52(tm), 32)
    /\ BandLeq(tm.blue, 499) /\ RatioLeq(ndi43(tm), 45)
    /\ BandLeq(tm.red, 729) /\ BandLeq(tm.blue, 259)

\* wofs.py:73
water(tm) ==
    w1(tm) \/ w2(tm) \/ w3(tm) \/ w4(tm) \/ w5(tm) \/ w6(tm) \/ w7(tm) \/ w8(tm)
        \/ w10(tm)

\* wofs.py:33-74; line 74: water.where(tm.red.notnull(), float("nan"))
wofs(tm) ==
    IF notnull(tm.red) THEN [isnull |-> FALSE, water |-> water(tm)] ELSE NoWater

WofsCall ==
    /\ wofs_pc = "call"
    /\ wofs_out' = wofs(wofs_in)
    /\ wofs_pc' = "done"
    /\ UNCHANGED wofs_in
    /\ UNCHANGED notWofs

InitWofs ==
    WofsStart /\ IdleRun /\ IdleEpsg /\ IdleBbox /\ IdleQuant /\ IdleMask
    /\ IdleMosaic /\ IdleRaster

NextWofs == WofsCall

SpecWofs == InitWofs /\ [][NextWofs]_vars

AnyNull(tm) == \E band \in WofsBands : tm[band].isnull

\* C14: wofs returns null wherever the reflectance of any band the tree
\* reads (blue, green, red, nir08, swir16, swir22) is null, and otherwise
\* the logical OR of the water-leaf predicates.
C14_NullWhereAnyBandNull ==
    wofs_pc = "done" =>
        IF AnyNull(wofs_in)
        THEN wofs_out.isnull
        ELSE ~wofs_out.isnull /\ wofs_out.water = water(wofs_in)

\* C14, what the code does: the result is null exactly where red is null
C14_NullWhereRedNull ==
    wofs_pc = "done" =>
        /\ wofs_out.isnull <=> wofs_in.red.isnull
        /\ ~AnyNull(wofs_in) => wofs_out.water = water(wofs_in)

Leaves == {"w1", "w2", "w3", "w4", "w5", "w6", "w7", "w8", "w10"}

Leaf(leaf, tm) ==
    CASE leaf = "w1" -> w1(tm)
      [] leaf = "w2" -> w2(tm)
      [] leaf = "w3" -> w3(tm)
      [] leaf = "w4" -> w4(tm)
      [] leaf = "w5" -> w5(tm)
      [] leaf = "w6" -> w6(tm)
      [] leaf = "w7" -> w7(tm)
      [] leaf = "w8" -> w8(tm)
      [] leaf = "w10" -> w10(tm)

LeafReachable(leaf) == \E tm \in WofsPixels : ~AnyNull(tm) /\ Leaf(leaf, tm)

ReachableLeaves == {leaf \in Leaves : LeafReachable(leaf)}

\* C15: every water leaf of the tree is reachable: once wofs has classified
\* the pixels, for each of w1, w2, w3, w4, w5, w6, w7, w8 and w10 some
\* non-null pixel has made the leaf true.
C15_EveryLeafReachable == wofs_pc = "done" => ReachableLeaves = Leaves

\* C15, what the code gives: every leaf but w5 is reached, and no pixel,
\* null or not, makes w5 true: w5 asks for ndi52 > -0.01 (~d1) and
\* ndi52 <= -0.12 (d14) at once
C15_LeavesButW5Reachable ==
    wofs_pc = "done" => ReachableLeaves = Leaves \ {"w5"} /\ ~w5(wofs_in)

====
